---- MODULE Spec2Model ----
(***************************************************************************)
(* A model of modules/CryptoScan.py: the data constant scanner             *)
(* (run_data_constant_scans with seek_next_byte / next_byte over the       *)
(* binary reader), the IL constant scanner (run_il_constant_scans with     *)
(* recurse_retrieve_consts) and the orchestration in run().                *)
(*                                                                         *)
(* Text is modelled as sequences of one-character strings, so that the     *)
(* conversions the code performs (int(s, 16), '{:x}'.format, str.replace,  *)
(* str.encode('hex')) are computed and not assumed.                        *)
(***************************************************************************)
EXTENDS Integers, Sequences, FiniteSets, TLC

VARIABLES
    mem,               \* the address space of self.bv: one cell per offset
    scanconfigs,       \* self.scanconfigs
    offset,            \* self.br.offset
    cancelled,         \* self.cancelled
    pc,                \* position of the worker
    results,           \* the local result list of the running scan
    progress_trigger,  \* local of run_data_constant_scans
    start_offset,      \* local of run_data_constant_scans
    progress,          \* the percentage last written to self.progress, or None
    lookaheads,        \* the trigger hits of the last outer iteration
    returned,          \* the lists run_data_constant_scans has returned, in order
    mlil_instructions, \* self.bv.mlil_instructions: a sequence of operand trees
    const_instructions,\* local of run_il_constant_scans
    il_results,        \* what run_il_constant_scans returned
    options,           \* self.options
    run_results,       \* the local result list of run()
    stages,            \* the scanners run() has called, in order
    reported,          \* the list handed to apply_symbols / display_results
    symbols            \* the user symbols defined in self.bv

vars == <<mem, scanconfigs, offset, cancelled, pc, results, progress_trigger,
          start_offset, progress, lookaheads, returned, mlil_instructions,
          const_instructions, il_results, options, run_results, stages, reported,
          symbols>>

----------------------------------------------------------------------------
(* Bounds of the model *)

MemLen == 3      \* every layout of up to MemLen offsets is scanned
MaxPad == 16     \* the padded layouts hold up to MaxPad zero bytes
MaxRuns == 2     \* run_data_constant_scans is called up to MaxRuns times
MaxNodes == 3    \* operand trees have up to MaxNodes nodes

(* Program constants *)

MaxDist == 15        \* seek_next_byte's default max_dist
ProgressStep == 5    \* progress_trigger's start and increment
None == -1           \* Python's None where a byte or a percentage is expected
Unmapped == -2       \* a cell for which bv.is_valid_offset is False

----------------------------------------------------------------------------
\* Op applied to the value of v: v is evaluated once, as a Python local is
Let(v, Op(_)) == CHOOSE out \in {Op(x) : x \in {v}} : TRUE

----------------------------------------------------------------------------
(* Text conversions *)

HexDigits == <<"0", "1", "2", "3", "4", "5", "6", "7",
               "8", "9", "a", "b", "c", "d", "e", "f">>

DigitValue(c) == CHOOSE d \in 0..15 : HexDigits[d + 1] = c

RECURSIVE ParseDigits(_, _)
ParseDigits(s, acc) ==
    IF s = <<>> THEN acc
    ELSE ParseDigits(Tail(s), acc * 16 + DigitValue(Head(s)))

\* int(token, 16): an optional 0x prefix, then hexadecimal digits
ParseInt16(s) ==
    IF Len(s) >= 2 /\ s[1] = "0" /\ s[2] = "x"
    THEN ParseDigits(SubSeq(s, 3, Len(s)), 0)
    ELSE ParseDigits(s, 0)

\* token.replace('0x', ''): every occurrence of 0x is removed, left to right
RECURSIVE Replace0x(_)
Replace0x(s) ==
    IF s = <<>> THEN <<>>
    ELSE IF Len(s) >= 2 /\ s[1] = "0" /\ s[2] = "x"
         THEN Replace0x(SubSeq(s, 3, Len(s)))
         ELSE <<Head(s)>> \o Replace0x(Tail(s))

\* '{:x}'.format(n): lowercase digits, no prefix, no leading zero
RECURSIVE FormatHex(_)
FormatHex(n) ==
    IF n < 0 THEN <<"-">> \o FormatHex(0 - n)
    ELSE IF n < 16 THEN <<HexDigits[n + 1]>>
    ELSE FormatHex(n \div 16) \o <<HexDigits[(n % 16) + 1]>>

\* byte.encode('hex'): always two digits
EncodeHex(b) == <<HexDigits[(b \div 16) + 1], HexDigits[(b % 16) + 1]>>

ByteToInt(b) == ParseInt16(EncodeHex(b))

----------------------------------------------------------------------------
(* The binary reader over the address space.  Offsets start at 0; cell     *)
(* mem[o + 1] holds the byte at offset o or Unmapped.  read(1) at a valid  *)
(* offset returns the byte and advances the cursor by one; at an offset    *)
(* that is not valid it returns None and leaves the cursor, which is why   *)
(* seek_next_byte then calls seek_relative(1) itself.                      *)

Eof(m, off) == off >= Len(m)

IsValidOffset(m, off) == off >= 0 /\ off < Len(m) /\ m[off + 1] # Unmapped

\* while not is_valid_offset(offset) and not eof: seek_relative(1)
RECURSIVE SkipInvalid(_, _)
SkipInvalid(m, off) ==
    IF ~IsValidOffset(m, off) /\ ~Eof(m, off) THEN SkipInvalid(m, off + 1)
    ELSE off

\* next_byte: [byte, offset]
next_byte(m, off) ==
    LET o == SkipInvalid(m, off) IN
    IF Eof(m, o) THEN [byte |-> None, offset |-> o]
    ELSE [byte |-> ByteToInt(m[o + 1]), offset |-> o + 1]

\* the counted loop of seek_next_byte: [byte, count, offset]
RECURSIVE SeekLoop(_, _, _, _, _)
SeekLoop(m, off, dist, max_dist, allow_null) ==
    IF ~Eof(m, off) /\ dist <= max_dist
    THEN IF ~IsValidOffset(m, off)
         THEN SeekLoop(m, off + 1, dist + 1, max_dist, allow_null)
         ELSE IF ByteToInt(m[off + 1]) # 0 \/ allow_null
              THEN [byte |-> ByteToInt(m[off + 1]), count |-> dist + 1,
                    offset |-> off + 1]
              ELSE SeekLoop(m, off + 1, dist + 1, max_dist, allow_null)
    ELSE [byte |-> None, count |-> dist, offset |-> off]

seek_next_byte(m, off, allow_null) ==
    LET max_dist == IF allow_null THEN (MaxDist * 2) + 1 ELSE MaxDist
    IN  Let(SkipInvalid(m, off), LAMBDA start :
          SeekLoop(m, start, 0, max_dist, allow_null))

----------------------------------------------------------------------------
(* run_data_constant_scans *)

\* scans = [scan for scan in self.scanconfigs if scan.type == 'static' and scan.enabled]
IsStaticEnabled(scan) == scan.type = "static" /\ scan.enabled

StaticScans(cfgs) == SelectSeq(cfgs, IsStaticEnabled)

\* [int(tb, 16) for tb in scan.flags[1:]]
FlagInts(flags) == [i \in 1..(Len(flags) - 1) |-> ParseInt16(flags[i + 1])]

\* the loop fetching the remaining flag bytes; i counts from 0 as in the code
RECURSIVE FetchFlags(_, _, _, _, _, _, _)
FetchFlags(m, flags, i, off, test_bytes, bytes_read, seeks) ==
    IF i >= Len(flags) - 1
    THEN [offset |-> off, test_bytes |-> test_bytes, bytes_read |-> bytes_read,
          seeks |-> seeks]
    ELSE LET null_wanted == ParseInt16(flags[i + 2]) = 0
         IN  Let(seek_next_byte(m, off, null_wanted), LAMBDA r :
               FetchFlags(m, flags, i + 1, r.offset,
                          IF r.byte # None THEN Append(test_bytes, r.byte)
                                           ELSE test_bytes,
                          bytes_read + r.count,
                          Append(seeks, [allow_null |-> null_wanted, from |-> off,
                                         to |-> r.offset, byte |-> r.byte,
                                         count |-> r.count])))

\* DataConstantScanMatch(scan, address)
DataConstantScanMatch(scan, address) ==
    [kind |-> "data", scan |-> scan, address |-> address]

\* the sanity check confirming a match
MatchConfirmed(flags, test_bytes) ==
    Len(test_bytes) = Len(flags) - 1 /\ test_bytes = FlagInts(flags)

\* address = self.br.offset - (bytes_read+1)
MatchAddress(off, bytes_read) == off - (bytes_read + 1)

\* the track back going one byte too far, onto the trigger byte
TrackBackOntoTrigger(off, bytes_read) == off - (bytes_read + 1)

\* self.br.offset -= bytes_read
TrackBack(off, bytes_read) == off - bytes_read

\* a trigger hit of scan on the byte read at offset p: fetch the remaining
\* flag bytes, confirm the match, track back; acc is [offset, results, log]
Lookahead(m, scan, p, acc) ==
    Let(FetchFlags(m, scan.flags, 0, acc.offset, <<>>, 0, <<>>), LAMBDA f :
      LET hit == MatchConfirmed(scan.flags, f.test_bytes)
          address == MatchAddress(f.offset, f.bytes_read)
          back == TrackBack(f.offset, f.bytes_read)
      IN  [offset |-> back,
           results |-> IF hit
                       THEN Append(acc.results,
                                   DataConstantScanMatch(scan, address))
                       ELSE acc.results,
           log |-> Append(acc.log,
                          [p |-> p, scan |-> scan.name, flags |-> scan.flags,
                           matched |-> hit,
                           address |-> IF hit THEN address ELSE None,
                           seeks |-> f.seeks, cursor |-> back])])

\* for index, trigger in enumerate(triggers): b is the byte read at offset p
RECURSIVE TriggerLoop(_, _, _, _, _, _)
TriggerLoop(m, scans, b, p, index, acc) ==
    IF index > Len(scans) THEN acc
    ELSE Let(IF b = ParseInt16(scans[index].flags[1])
             THEN Lookahead(m, scans[index], p, acc)
             ELSE acc,
             LAMBDA next : TriggerLoop(m, scans, b, p, index + 1, next))

\* while progress_trigger < percentage: progress_trigger += 5
RECURSIVE BumpTrigger(_, _)
BumpTrigger(pt, percentage) ==
    IF pt < percentage THEN BumpTrigger(pt + ProgressStep, percentage) ELSE pt

\* the loop condition without the poll of the cancellation flag
LoopConditionNoPoll(m, off, canc) == ~Eof(m, off)

\* while not self.br.eof and not self.cancelled
LoopCondition(m, off, canc) == ~Eof(m, off) /\ ~canc

\* one pass through the body of the outer loop
Iteration(m, scans, off, res, pt, so, pr) ==
    Let(next_byte(m, off), LAMBDA nb :
      LET percentage == ((nb.offset - so) * 100) \div Len(m)
          logged == percentage >= pt
          pt2 == IF logged THEN BumpTrigger(pt + ProgressStep, percentage)
                           ELSE pt
          pr2 == IF logged THEN percentage ELSE pr
      IN  IF nb.byte = None
          THEN [stop |-> TRUE, offset |-> nb.offset, results |-> res,
                progress_trigger |-> pt2, progress |-> pr2, log |-> <<>>]
          ELSE Let(TriggerLoop(m, scans, nb.byte, nb.offset - 1, 1,
                               [offset |-> nb.offset, results |-> res,
                                log |-> <<>>]),
                   LAMBDA t :
                     [stop |-> FALSE, offset |-> t.offset,
                      results |-> t.results, progress_trigger |-> pt2,
                      progress |-> pr2, log |-> t.log]))

\* the list the scan returns when it is never cancelled
RECURSIVE ScanLoop(_, _, _, _, _, _, _)
ScanLoop(m, scans, off, res, pt, so, pr) ==
    IF ~LoopCondition(m, off, FALSE) THEN res
    ELSE Let(Iteration(m, scans, off, res, pt, so, pr), LAMBDA it :
           IF it.stop THEN it.results
           ELSE ScanLoop(m, scans, it.offset, it.results, it.progress_trigger,
                         so, it.progress))

run_data_constant_scans(m, cfgs, off) ==
    ScanLoop(m, StaticScans(cfgs), off, <<>>, ProgressStep, off, None)

----------------------------------------------------------------------------
(* Inputs of the data scanner *)

Cells == {Unmapped, 0, 170, 187}

Zeros(k) == [i \in 1..k |-> 0]

\* every layout of up to MemLen offsets, and 0xAA, k zero bytes, 0xBB
Layouts ==
    UNION {[1..n -> Cells] : n \in 1..MemLen}
        \cup {<<170>> \o Zeros(k) \o <<187>> : k \in 0..MaxPad}

Config(name, type, enabled, flags) ==
    [name |-> name, type |-> type, enabled |-> enabled, flags |-> flags,
     match_type |-> "symbol", match_label |-> name]

TokAA == <<"0", "x", "a", "a">>
TokBB == <<"0", "x", "b", "b">>
Tok00 == <<"0", "x", "0", "0">>

DataConfigChoices ==
    { <<Config("A", "static", TRUE, <<TokAA>>)>>,
      <<Config("AB", "static", TRUE, <<TokAA, TokBB>>)>>,
      <<Config("A0B", "static", TRUE, <<TokAA, Tok00, TokBB>>)>>,
      <<Config("AB", "static", TRUE, <<TokAA, TokBB>>),
        Config("A", "static", TRUE, <<TokAA>>)>>,
      <<Config("A", "static", FALSE, <<TokAA>>),
        Config("BA", "static", TRUE, <<TokBB, TokAA>>)>>,
      <<Config("A", "signature", TRUE, <<TokAA>>),
        Config("B", "static", TRUE, <<TokBB>>)>> }

NoOptions == [static |-> FALSE, signature |-> FALSE]

----------------------------------------------------------------------------
(* The data scanner as a state machine *)

ILIdle ==
    /\ mlil_instructions = <<>>
    /\ const_instructions = <<>>
    /\ il_results = <<>>
    /\ options = NoOptions
    /\ run_results = <<>>
    /\ stages = <<>>
    /\ reported = <<>>
    /\ symbols = {}

DataIdle ==
    /\ offset = 0
    /\ results = <<>>
    /\ progress_trigger = ProgressStep
    /\ start_offset = 0
    /\ progress = None
    /\ lookaheads = <<>>
    /\ returned = <<>>

Init ==
    /\ mem \in Layouts
    /\ scanconfigs \in DataConfigChoices
    /\ cancelled = FALSE
    /\ pc = "idle"
    /\ DataIdle
    /\ ILIdle

ILVars == <<mlil_instructions, const_instructions, il_results, options,
            run_results, stages, reported, symbols>>

\* entry of run_data_constant_scans: the locals are set up
Call ==
    /\ pc = "idle"
    /\ Len(returned) < MaxRuns
    /\ pc' = "loop"
    /\ results' = <<>>
    /\ progress_trigger' = ProgressStep
    /\ start_offset' = offset
    /\ lookaheads' = <<>>
    /\ UNCHANGED <<mem, scanconfigs, offset, cancelled, progress, returned, ILVars>>

\* one iteration of the outer loop; a None byte breaks out and returns
Iterate ==
    /\ pc = "loop"
    /\ LoopCondition(mem, offset, cancelled)
    /\ \E it \in {Iteration(mem, StaticScans(scanconfigs), offset, results,
                           progress_trigger, start_offset, progress)} :
           /\ offset' = it.offset
           /\ results' = it.results
           /\ progress_trigger' = it.progress_trigger
           /\ progress' = it.progress
           /\ lookaheads' = it.log
           /\ pc' = IF it.stop THEN "idle" ELSE "loop"
           /\ returned' = IF it.stop THEN Append(returned, it.results)
                                     ELSE returned
    /\ UNCHANGED <<mem, scanconfigs, cancelled, start_offset, ILVars>>

\* the loop condition fails: return results
Return ==
    /\ pc = "loop"
    /\ ~LoopCondition(mem, offset, cancelled)
    /\ pc' = "idle"
    /\ returned' = Append(returned, results)
    /\ UNCHANGED <<mem, scanconfigs, offset, cancelled, results, progress_trigger,
                   start_offset, progress, lookaheads, ILVars>>

\* the user cancels the background task while the scan runs
Cancel ==
    /\ pc = "loop"
    /\ ~cancelled
    /\ cancelled' = TRUE
    /\ UNCHANGED <<mem, scanconfigs, offset, pc, results, progress_trigger,
                   start_offset, progress, lookaheads, returned, ILVars>>

Next == Call \/ Iterate \/ Return \/ Cancel

Spec == Init /\ [][Next]_vars

\* the worker thread keeps running the scan it has started
FairSpec == Spec /\ WF_vars(Iterate) /\ WF_vars(Return)

----------------------------------------------------------------------------
(* The IL constant scanner.  An instruction is its operand tree, held as   *)
(* the sequence of its nodes in pre-order: node 1 is the instruction, and  *)
(* the operands of node i are the nodes whose parent is i, left to right.  *)
(* A node is a constant (MLIL_CONST), another instruction ("op") or an     *)
(* operand that is no instruction ("other": a variable, an integer).       *)

Operands(t, i) == SelectSeq([j \in 1..Len(t) |-> j], LAMBDA j : t[j].parent = i)

\* type(operand) == bn.MediumLevelILInstruction
IsInstruction(node) == node.kind \in {"const", "op"}

RECURSIVE recurse_retrieve_consts(_, _)
RECURSIVE RecurseOperands(_, _)

\* for operand in instruction.operands: recurse into the instructions
RecurseOperands(t, operands) ==
    IF operands = <<>> THEN <<>>
    ELSE (IF IsInstruction(t[Head(operands)])
          THEN recurse_retrieve_consts(t, Head(operands))
          ELSE <<>>) \o RecurseOperands(t, Tail(operands))

\* the direct operands only, with no recursion below them
ShallowRetrieveConsts(t, i) ==
    IF t[i].kind = "const" THEN <<i>>
    ELSE SelectSeq(Operands(t, i), LAMBDA j : t[j].kind = "const")

recurse_retrieve_consts(t, i) ==
    IF t[i].kind = "const" THEN <<i>>
    ELSE RecurseOperands(t, Operands(t, i))

\* for instruction in self.bv.mlil_instructions: const_instructions.extend(...)
RECURSIVE CollectConsts(_, _)
CollectConsts(instrs, k) ==
    IF k > Len(instrs) THEN <<>>
    ELSE [n \in 1..Len(recurse_retrieve_consts(instrs[k], 1)) |->
             [instruction |-> k,
              node |-> recurse_retrieve_consts(instrs[k], 1)[n],
              size |-> instrs[k][recurse_retrieve_consts(instrs[k], 1)[n]].size,
              constant |->
                  instrs[k][recurse_retrieve_consts(instrs[k], 1)[n]].constant]]
         \o CollectConsts(instrs, k + 1)

Min(a, b) == IF a < b THEN a ELSE b

\* s[a:b] for 0 <= a <= b
Slice(s, a, b) == SubSeq(s, Min(a, Len(s)) + 1, Min(b, Len(s)))

\* range((len(scan.flags) + 3) // 4)
ChunkCount(flags, size) == (Len(flags) + 3) \div 4

\* chunks = [scan.flags[i * instr.size:(i+1) * instr.size] for i in range(...)]
Chunks(flags, size) ==
    [n \in 1..ChunkCount(flags, size) |-> Slice(flags, (n - 1) * size, n * size)]

\* ''.join((flag.replace('0x', '') for flag in chunk))
RECURSIVE FlagValue(_)
FlagValue(chunk) ==
    IF chunk = <<>> THEN <<>>
    ELSE Replace0x(Head(chunk)) \o FlagValue(Tail(chunk))

\* if const_value == flag_value
ChunkMatches(chunk, constant) == FormatHex(constant) = FlagValue(chunk)

ILConstantScanMatch(scan, instr, chunk) ==
    [kind |-> "il", scan |-> scan, instr |-> instr, chunk |-> chunk]

\* for chunk in chunks: if len(chunk) == instr.size and the values agree
MatchChunks(scan, instr) ==
    LET hits == SelectSeq(Chunks(scan.flags, instr.size),
                    LAMBDA chunk : /\ Len(chunk) = instr.size
                                   /\ ChunkMatches(chunk, instr.constant))
    IN  [n \in 1..Len(hits) |-> ILConstantScanMatch(scan, instr, hits[n])]

\* for scan in scans
RECURSIVE MatchScans(_, _, _)
MatchScans(scans, j, instr) ==
    IF j > Len(scans) THEN <<>>
    ELSE MatchChunks(scans[j], instr) \o MatchScans(scans, j + 1, instr)

\* for instr in const_instructions: skip the constants of one byte or less
RECURSIVE MatchConsts(_, _, _)
MatchConsts(scans, consts, k) ==
    IF k > Len(consts) THEN <<>>
    ELSE (IF ~(consts[k].size > 1) THEN <<>>
          ELSE MatchScans(scans, 1, consts[k]))
         \o MatchConsts(scans, consts, k + 1)

run_il_constant_scans(instrs, cfgs) ==
    MatchConsts(StaticScans(cfgs), CollectConsts(instrs, 1), 1)

----------------------------------------------------------------------------
(* Inputs of the IL scanner *)

Kinds == {"const", "op", "other"}

RECURSIVE PathToRoot(_, _)
PathToRoot(shape, j) ==
    IF j = 0 THEN {} ELSE {j} \cup PathToRoot(shape, shape[j].parent)

\* a pre-order numbering: a node hangs below the previous node or one of its
\* ancestors, and only an instruction that is no constant has operands
IsTree(shape) ==
    /\ shape[1].parent = 0
    /\ IsInstruction(shape[1])
    /\ \A i \in 2..Len(shape) :
          /\ shape[i].parent \in PathToRoot(shape, i - 1)
          /\ shape[shape[i].parent].kind = "op"

Shapes ==
    UNION {{shape \in [1..n -> [parent : 0..(n - 1), kind : Kinds]] :
               IsTree(shape)} : n \in 1..MaxNodes}

\* (size, constant) of the constants of a stream:
\* 0x01020304, 0x01020305, 0x11223344, 0x3344, 0x1122 and the one-byte 0x11
Payloads ==
    { [size |-> 4, constant |-> 16909060], [size |-> 4, constant |-> 16909061],
      [size |-> 4, constant |-> 287454020], [size |-> 2, constant |-> 13124],
      [size |-> 2, constant |-> 4386], [size |-> 1, constant |-> 17] }

Instruction(shape, payload) ==
    [i \in 1..Len(shape) |->
        [parent |-> shape[i].parent, kind |-> shape[i].kind,
         size |-> IF shape[i].kind = "const" THEN payload.size ELSE 0,
         constant |-> IF shape[i].kind = "const" THEN payload.constant ELSE 0]]

\* streams of one instruction, or of one followed by a single-node instruction;
\* the constants of a stream share a payload
Streams ==
    {<<Instruction(shape, payload)>> : shape \in Shapes, payload \in Payloads}
        \cup {<<Instruction(shape, payload), Instruction(last, payload)>> :
                 shape \in Shapes, last \in {sh \in Shapes : Len(sh) = 1},
                 payload \in Payloads}

Tok(hi, lo) == <<"0", "x", hi, lo>>

Flags1234 == <<Tok("0", "1"), Tok("0", "2"), Tok("0", "3"), Tok("0", "4")>>
FlagsWide == <<Tok("1", "1"), Tok("2", "2"), Tok("3", "3"), Tok("4", "4")>>

ILConfigChoices ==
    { <<Config("TestConst", "static", TRUE, Flags1234)>>,
      <<Config("Wide", "static", TRUE, FlagsWide)>>,
      <<Config("Wide5", "static", TRUE, FlagsWide \o <<Tok("1", "1")>>)>>,
      <<Config("Wide6", "static", TRUE,
               FlagsWide \o <<Tok("1", "1"), Tok("2", "2")>>)>>,
      <<Config("Wide", "static", FALSE, FlagsWide),
        Config("TestConst", "static", TRUE, Flags1234)>>,
      <<Config("Wide", "signature", TRUE, FlagsWide),
        Config("Wide", "static", TRUE, FlagsWide)>> }

----------------------------------------------------------------------------
(* run_il_constant_scans as a state machine: collect, then match *)

ILInit ==
    /\ mem = <<0>>
    /\ scanconfigs \in ILConfigChoices
    /\ cancelled = FALSE
    /\ pc = "il_collect"
    /\ DataIdle
    /\ mlil_instructions \in Streams
    /\ const_instructions = <<>>
    /\ il_results = <<>>
    /\ options = NoOptions
    /\ run_results = <<>>
    /\ stages = <<>>
    /\ reported = <<>>
    /\ symbols = {}

DataVars == <<mem, scanconfigs, offset, cancelled, results, progress_trigger,
              start_offset, progress, lookaheads, returned>>

ILCollect ==
    /\ pc = "il_collect"
    /\ const_instructions' = CollectConsts(mlil_instructions, 1)
    /\ pc' = "il_match"
    /\ UNCHANGED <<DataVars, mlil_instructions, il_results, options, run_results,
                   stages, reported, symbols>>

ILMatch ==
    /\ pc = "il_match"
    /\ il_results' = MatchConsts(StaticScans(scanconfigs), const_instructions, 1)
    /\ pc' = "il_done"
    /\ UNCHANGED <<DataVars, mlil_instructions, const_instructions, options,
                   run_results, stages, reported, symbols>>

ILNext == ILCollect \/ ILMatch

ILSpec == ILInit /\ [][ILNext]_vars

----------------------------------------------------------------------------
(* run() *)

\* run_signature_scans: the loop over the signature configs does nothing
run_signature_scans(cfgs) == <<>>

\* apply_symbols with set_symbol: the symbols defined for the data matches
AppliedSymbols(m, res) ==
    {[address |-> res[n].address, label |-> res[n].scan.match_label] :
        n \in {k \in 1..Len(res) : /\ res[k].kind = "data"
                                   /\ res[k].scan.match_type = "symbol"
                                   /\ IsValidOffset(m, res[k].address)}}

RunLayouts == {<<170>>, <<170, 187>>, <<0, Unmapped, 187>>}

RunConfigChoices ==
    { <<Config("A", "static", TRUE, <<TokAA>>)>>,
      <<Config("Wide", "static", TRUE, FlagsWide)>>,
      <<Config("AB", "static", TRUE, <<TokAA, TokBB>>),
        Config("Wide", "static", TRUE, FlagsWide)>> }

RunInit ==
    /\ mem \in RunLayouts
    /\ scanconfigs \in RunConfigChoices
    /\ cancelled = FALSE
    /\ pc = "run_static"
    /\ DataIdle
    /\ mlil_instructions \in {stream \in Streams : Len(stream) = 1}
    /\ const_instructions = <<>>
    /\ il_results = <<>>
    /\ options \in [static : BOOLEAN, signature : BOOLEAN]
    /\ run_results = <<>>
    /\ stages = <<>>
    /\ reported = <<>>
    /\ symbols = {}

ReaderVars == <<mem, scanconfigs, offset, results, progress_trigger,
                start_offset, progress, lookaheads, returned>>

\* if self.options['static']: the call of the data scan is commented out, the
\* IL scan runs unless cancelled
RunStatic ==
    /\ pc = "run_static"
    /\ IF options.static /\ ~cancelled
       THEN /\ il_results' = run_il_constant_scans(mlil_instructions, scanconfigs)
            /\ run_results' = run_results \o il_results'
            /\ stages' = Append(stages, "il")
       ELSE UNCHANGED <<il_results, run_results, stages>>
    /\ pc' = "run_signature"
    /\ UNCHANGED <<ReaderVars, cancelled, mlil_instructions, const_instructions,
                   options, reported, symbols>>

\* if self.options['signature'] and not self.cancelled
RunSignature ==
    /\ pc = "run_signature"
    /\ IF options.signature /\ ~cancelled
       THEN /\ run_results' = run_results \o run_signature_scans(scanconfigs)
            /\ stages' = Append(stages, "signature")
       ELSE UNCHANGED <<run_results, stages>>
    /\ pc' = "run_report"
    /\ UNCHANGED <<ReaderVars, cancelled, mlil_instructions, const_instructions,
                   il_results, options, reported, symbols>>

\* if len(results) is not 0: apply_symbols(results); display_results(results)
RunReport ==
    /\ pc = "run_report"
    /\ IF Len(run_results) # 0
       THEN /\ symbols' = symbols \cup AppliedSymbols(mem, run_results)
            /\ reported' = run_results
       ELSE UNCHANGED <<symbols, reported>>
    /\ pc' = "run_done"
    /\ UNCHANGED <<ReaderVars, cancelled, mlil_instructions, const_instructions,
                   il_results, options, run_results, stages>>

\* the user cancels the background task while run() is under way
RunCancel ==
    /\ pc \in {"run_static", "run_signature", "run_report"}
    /\ ~cancelled
    /\ cancelled' = TRUE
    /\ UNCHANGED <<ReaderVars, pc, mlil_instructions, const_instructions,
                   il_results, options, run_results, stages, reported, symbols>>

RunNext == RunStatic \/ RunSignature \/ RunReport \/ RunCancel

RunSpec == RunInit /\ [][RunNext]_vars

----------------------------------------------------------------------------
(* Properties of the data scanner *)

IsPrefix(s, t) == Len(s) <= Len(t) /\ SubSeq(t, 1, Len(s)) = s

\* C1: after the lookahead of every trigger hit at offset p the reader
\* cursor is exactly p + 1, whatever the layout of the address space.
C1_CursorRestored ==
    \A n \in 1..Len(lookaheads) : lookaheads[n].cursor = lookaheads[n].p + 1

\* C2: every match carries the offset of its trigger byte as its address.
C2_AddressIsTrigger ==
    \A n \in 1..Len(lookaheads) :
        lookaheads[n].matched => lookaheads[n].address = lookaheads[n].p

IsPadded(m) == \E k \in 0..MaxPad : m = <<170>> \o Zeros(k) \o <<187>>

\* C5: one seek_next_byte advances the reader by at most 15 bytes (31 when a
\* zero byte is sought); 0xAA, k zero bytes, 0xBB is matched at the trigger
\* address when 0xBB lies within 15 bytes after the trigger, and not beyond.
C5_LookaheadWithin15 ==
    /\ \A n \in 1..Len(lookaheads) :
         \A k \in 1..Len(lookaheads[n].seeks) :
            LET seek == lookaheads[n].seeks[k]
            IN  seek.to - seek.from
                    <= (IF seek.allow_null THEN (MaxDist * 2) + 1 ELSE MaxDist)
    /\ (/\ IsPadded(mem)
        /\ scanconfigs = <<Config("AB", "static", TRUE, <<TokAA, TokBB>>)>>
        /\ ~cancelled
        /\ Len(returned) >= 1)
       => returned[1] =
             (IF Len(mem) - 1 <= MaxDist
              THEN <<DataConstantScanMatch(scanconfigs[1], 0)>>
              ELSE <<>>)

\* C6: a second run over the same address space and configs, with no
\* cancellation, returns the list the first run returned.
C6_SecondRunSame ==
    (Len(returned) >= 2 /\ ~cancelled) => returned[2] = returned[1]

\* C7: once the cancellation flag is set, the next step of the scan is its
\* return, with no further byte read and with exactly the matches confirmed so
\* far; what a scan returns is a prefix of what the uncancelled scan returns
\* (all of it when never cancelled), and a cancelled scan does return.
C7_CancelReturnsPrefix ==
    /\ [][(pc = "loop" /\ cancelled)
            => /\ pc' = "idle"
               /\ offset' = offset
               /\ returned' = Append(returned, results)]_vars
    /\ [](pc = "loop" =>
            IsPrefix(results,
                     run_data_constant_scans(mem, scanconfigs, start_offset)))
    /\ []((pc = "idle" /\ returned # <<>>) =>
            /\ IsPrefix(returned[Len(returned)],
                        run_data_constant_scans(mem, scanconfigs, start_offset))
            /\ ~cancelled =>
                  returned[Len(returned)] =
                     run_data_constant_scans(mem, scanconfigs, start_offset))
    /\ ((pc = "loop" /\ cancelled) ~> (pc = "idle"))

\* a cancelled scan that returned some, but not all, of the matches
C7_Witness ==
    /\ cancelled
    /\ Len(returned) = 1
    /\ returned[1] # <<>>
    /\ Len(returned[1]) < Len(run_data_constant_scans(mem, scanconfigs, 0))

\* C10: the scan terminates: the cursor never passes the end of the data, no
\* seek_next_byte moves it back or by more than the address space, every
\* outer iteration starts at a greater offset than the one before, and a
\* running scan returns.
C10_Terminates ==
    /\ [](offset >= 0 /\ offset <= Len(mem))
    /\ [](\A n \in 1..Len(lookaheads) :
            \A k \in 1..Len(lookaheads[n].seeks) :
               /\ lookaheads[n].seeks[k].from <= lookaheads[n].seeks[k].to
               /\ lookaheads[n].seeks[k].to <= Len(mem))
    /\ [][(pc = "loop" /\ pc' = "loop" /\ cancelled' = cancelled)
            => offset' > offset]_vars
    /\ ((pc = "loop") ~> (pc = "idle"))

\* an uncancelled scan over a layout with an unmapped offset has returned a
\* match at the end of the data
C10_Witness ==
    /\ ~cancelled
    /\ pc = "idle"
    /\ Len(returned) = 1
    /\ returned[1] # <<>>
    /\ Eof(mem, offset)
    /\ \E o \in 1..Len(mem) : mem[o] = Unmapped

----------------------------------------------------------------------------
(* Properties of the IL scanner *)

\* C3: with the one config TestConst [0x01,0x02,0x03,0x04] and one 4-byte
\* constant in the stream, the scan returns exactly one match (that config,
\* that constant) for 0x01020304 and none for 0x01020305; a chunk matches
\* exactly when its tokens without prefix spell the constant's lowercase hex.
C3_TestConstMatches ==
    /\ (/\ pc = "il_done"
        /\ scanconfigs = <<Config("TestConst", "static", TRUE, Flags1234)>>
        /\ Len(const_instructions) = 1
        /\ const_instructions[1].size = 4)
       => /\ const_instructions[1].constant = 16909060 =>
                /\ Len(il_results) = 1
                /\ il_results[1].scan.name = "TestConst"
                /\ il_results[1].instr = const_instructions[1]
          /\ const_instructions[1].constant = 16909061 => il_results = <<>>
    /\ \A n \in 1..Len(il_results) :
          FlagValue(il_results[n].chunk) = FormatHex(il_results[n].instr.constant)

\* C4: for a constant of width w > 1 every one of the floor(len(flags)/w) full
\* chunks of a config is compared, so it yields a match when it equals the
\* constant, and no chunk shorter than w yields a match.
C4_FullChunksCompared ==
    pc = "il_done" =>
      /\ \A k \in 1..Len(const_instructions) :
           \A j \in 1..Len(StaticScans(scanconfigs)) :
              LET instr == const_instructions[k]
                  scan == StaticScans(scanconfigs)[j]
                  w == instr.size
              IN  w > 1 =>
                    \A i \in 0..((Len(scan.flags) \div w) - 1) :
                       LET chunk == SubSeq(scan.flags, i * w + 1, (i + 1) * w)
                       IN  FlagValue(chunk) = FormatHex(instr.constant) =>
                             \E n \in 1..Len(il_results) :
                                il_results[n] =
                                   ILConstantScanMatch(scan, instr, chunk)
      /\ \A n \in 1..Len(il_results) :
            Len(il_results[n].chunk) = il_results[n].instr.size

\* C9: for every instruction, recurse_retrieve_consts returns its constant
\* nodes, each once, in pre-order (ascending node number); none when the tree
\* holds no constant; other operands contribute nothing.
C9_ConstLeavesPreOrder ==
    pc # "il_collect" =>
      \A k \in 1..Len(mlil_instructions) :
         LET got == SelectSeq(const_instructions, LAMBDA c : c.instruction = k)
             leaves == SelectSeq([i \in 1..Len(mlil_instructions[k]) |-> i],
                          LAMBDA i : mlil_instructions[k][i].kind = "const")
         IN  /\ [n \in 1..Len(got) |-> got[n].node] = leaves
             /\ Len(got) = Cardinality({i \in 1..Len(mlil_instructions[k]) :
                               mlil_instructions[k][i].kind = "const"})

\* the constants were collected from an instruction whose constant lies below
\* a sub-instruction, where only the recursion finds it
C9_Witness ==
    /\ pc = "il_match"
    /\ const_instructions # <<>>
    /\ \E k \in 1..Len(mlil_instructions) :
          \E i \in 1..Len(mlil_instructions[k]) :
             /\ mlil_instructions[k][i].kind = "const"
             /\ mlil_instructions[k][i].parent > 1

----------------------------------------------------------------------------
(* Properties of run() *)

\* C8: with the static option, run() runs the data scan first and then, unless
\* cancelled, the IL scan; the aggregated list is the data matches followed by
\* the IL matches.
C8_DataThenIL ==
    (pc = "run_done" /\ options.static) =>
       /\ stages # <<>>
       /\ stages[1] = "data"
       /\ ~cancelled =>
             run_results = run_data_constant_scans(mem, scanconfigs, 0)
                              \o run_il_constant_scans(mlil_instructions,
                                                       scanconfigs)

====
